---- MODULE Spec2Model ----
(***************************************************************************)
(* A model of whitelistPy's WhitelistClient (src/main.py): the guild store *)
(* self.data, its snapshot data.json, and the event handlers on_message,   *)
(* on_guild_join and on_ready, each cut at its await points.               *)
(*                                                                         *)
(* Python values are represented as follows.                               *)
(*   str            a sequence of characters; a character is a             *)
(*                  one-character string, or, where TLA+ cannot write it,  *)
(*                  ToString of its code point (11 and above)              *)
(*   None / a value the empty set / the singleton of the value             *)
(*   dict           a function; the empty dict is << >>                    *)
(*   str(id)        the key KeyOf(id), distinct from the id itself         *)
(***************************************************************************)
EXTENDS Integers, Sequences, FiniteSets, TLC

\* ------------------------------------------------------------------ bounds

\* The number of events (messages, joins) delivered in one behaviour; each
\* delivered event runs in a handler task of its own, so this is also the
\* number of handlers that can be suspended at the same time.
MaxEvents == 2

\* ------------------------------------------------------------ Python values

None == {}

Some(x) == {x}

\* str(guild.id), str(message.author.id): the dictionary key of an id.
KeyOf(id) == ToString(id)

EmptyDict == << >>

\* d[k] = v on a dict: the key is added or its value replaced.
DictSet(d, k, v) == [x \in (DOMAIN d) \cup {k} |-> IF x = k THEN v ELSE d[x]]

\* ------------------------------------------------------------------ strings

RECURSIVE Rep(_, _)
Rep(c, n) == IF n = 0 THEN << >> ELSE <<c>> \o Rep(c, n - 1)

\* The characters str.split() splits on, those for which str.isspace() holds:
\* U+0009-U+000D, U+001C-U+0020, U+0085, U+00A0, U+1680, U+2000-U+200A, U+2028,
\* U+2029, U+202F, U+205F and U+3000.
Whitespace ==
    {" ", "\t", "\n", "\f", "\r"}
    \cup { ToString(c) : c \in {11, 28, 29, 30, 31, 133, 160, 5760, 8232, 8233, 8239,
                                8287, 12288} \cup (8192..8202) }

\* The code point of the digit zero of each script of Unicode 14 other than
\* ASCII; the nine digits that follow it are the script's digits one to nine.
DigitZeros ==
    {1632, 1776, 1984, 2406, 2534, 2662, 2790, 2918, 3046, 3174, 3302, 3430, 3558,
     3664, 3792, 3872, 4160, 4240, 6112, 6160, 6470, 6608, 6784, 6800, 6992, 7088,
     7232, 7248, 42528, 43216, 43264, 43472, 43504, 43600, 44016, 65296, 66720,
     68912, 69734, 69872, 69942, 70096, 70384, 70736, 70864, 71248, 71360, 71472,
     71904, 72016, 72784, 73040, 73120, 92768, 92864, 93008, 120782, 120792,
     120802, 120812, 120822, 123200, 123632, 125264, 130032}

\* The characters \d matches in a str pattern: the decimal digits of every
\* script (Unicode category Nd).
Digits ==
    {"0", "1", "2", "3", "4", "5", "6", "7", "8", "9"}
    \cup UNION { { ToString(z + i) : i \in 0..9 } : z \in DigitZeros }

\* str.startswith(p)
StartsWith(s, p) == Len(s) >= Len(p) /\ SubSeq(s, 1, Len(p)) = p

\* s[-n:]
LastChars(s, n) == IF Len(s) <= n THEN s ELSE SubSeq(s, Len(s) - n + 1, Len(s))

\* The index of the first non-whitespace character of s at or after i
\* (Len(s) + 1 when there is none).
RECURSIVE SkipSpace(_, _)
SkipSpace(s, i) ==
    IF i > Len(s) THEN i
    ELSE IF s[i] \in Whitespace THEN SkipSpace(s, i + 1) ELSE i

\* The index just after the run of non-whitespace characters starting at i.
RECURSIVE SkipWord(_, _)
SkipWord(s, i) ==
    IF i > Len(s) THEN i
    ELSE IF s[i] \in Whitespace THEN i ELSE SkipWord(s, i + 1)

\* str.split(): the whitespace-delimited tokens of s.
RECURSIVE SplitFrom(_, _)
SplitFrom(s, i) ==
    LET b == SkipSpace(s, i) IN
    IF b > Len(s) THEN << >>
    ELSE LET e == SkipWord(s, b) IN <<SubSeq(s, b, e - 1)>> \o SplitFrom(s, e)

Split(s) == SplitFrom(s, 1)

Sigil == <<">">>

\* message.content.split()[0][1:]
CommandOf(content) == Tail(Split(content)[1])

\* ------------------------------------------------------------ command words

wChannel == <<"c", "h", "a", "n", "n", "e", "l">>

wRole == <<"r", "o", "l", "e">>

wBlockchain == <<"b", "l", "o", "c", "k", "c", "h", "a", "i", "n">>

wData == <<"d", "a", "t", "a">>

wConfig == <<"c", "o", "n", "f", "i", "g">>

wClear == <<"c", "l", "e", "a", "r">>

wHelp == <<"h", "e", "l", "p">>

wHelpAdmin == wHelp \o <<".", "a", "d", "m", "i", "n">>

wCheck == <<"c", "h", "e", "c", "k">>

wEth == <<"e", "t", "h">>

wSol == <<"s", "o", "l">>

\* self.admin_commands.keys()
AdminCommands == {wChannel, wRole, wBlockchain, wData, wConfig, wClear, wHelpAdmin}

\* self.public_commands.keys()
PublicCommands == {wHelp, wCheck}

VALID_BLOCKCHAINS == {wEth, wSol}

\* re.compile(">channel <#\d+>$").fullmatch(s)
MatchChannel(s) ==
    LET p == Sigil \o wChannel \o <<" ", "<", "#">> IN
    /\ StartsWith(s, p)
    /\ Len(s) >= Len(p) + 2
    /\ s[Len(s)] = ">"
    /\ \A i \in (Len(p) + 1)..(Len(s) - 1) : s[i] \in Digits

\* re.compile(">role <@&\d+>$").fullmatch(s)
MatchRole(s) ==
    LET p == Sigil \o wRole \o <<" ", "<", "@", "&">> IN
    /\ StartsWith(s, p)
    /\ Len(s) >= Len(p) + 2
    /\ s[Len(s)] = ">"
    /\ \A i \in (Len(p) + 1)..(Len(s) - 1) : s[i] \in Digits

\* ------------------------------------------------------------- validators

HexChars == Digits \cup {"a", "b", "c", "d", "e", "f", "A", "B", "C", "D", "E", "F"}

\* The base-58 alphabet: letters and digits without 0, O, I and l.
Base58Chars ==
    (Digits \ {"0"})
    \cup {"A", "B", "C", "D", "E", "F", "G", "H", "J", "K", "L", "M", "N", "P",
          "Q", "R", "S", "T", "U", "V", "W", "X", "Y", "Z"}
    \cup {"a", "b", "c", "d", "e", "f", "g", "h", "i", "j", "k", "m", "n", "o",
          "p", "q", "r", "s", "t", "u", "v", "w", "x", "y", "z"}

\* validate_eth: a 42-character hexadecimal address, "0x" first.
validate_eth(s) ==
    /\ Len(s) = 42
    /\ StartsWith(s, <<"0", "x">>)
    /\ \A i \in 3..42 : s[i] \in HexChars

\* validate_sol: a base-58 address of 32 to 44 characters.
validate_sol(s) ==
    /\ Len(s) \in 32..44
    /\ \A i \in 1..Len(s) : s[i] \in Base58Chars

\* self.validators[code](text); the table has no entry for None.
HasValidator(code) == code \in {wEth, wSol}

Validate(code, text) == IF code = wEth THEN validate_eth(text) ELSE validate_sol(text)

\* ----------------------------------------------------------------- inputs

\* guild.id of the guilds the bot is a member of.
Guilds == {1, 2}

\* The order in which fetch_guilds() yields them.
FetchOrder == <<1, 2>>

\* A discord.Message, as far as the handlers read it: message.guild.id,
\* message.channel.id, message.author.id, message.author.bot,
\* isinstance(message.author, Member), guild_permissions.administrator, the ids of
\* message.author.roles, message.content and the ids of the two mention lists.
Msg(g, ch, a, bot, member, admin, roles, content, cm, rm) ==
    [guild |-> g, channel |-> ch, author |-> a, bot |-> bot, member |-> member,
     admin |-> admin, roles |-> roles, content |-> content,
     channel_mentions |-> cm, role_mentions |-> rm]

cSetChannel == Sigil \o wChannel \o <<" ", "<", "#", "1", "0", ">">>

cSetChannelTrailing == cSetChannel \o <<" ", "x">>

cSetChannelUnknown == Sigil \o wChannel \o <<" ", "<", "#", "9", "9", ">">>

cSetRole == Sigil \o wRole \o <<" ", "<", "@", "&", "2", "0", ">">>

cSetRoleBare == Sigil \o wRole

cChainEth == Sigil \o wBlockchain \o <<" ">> \o wEth

cChainSol == Sigil \o wBlockchain \o <<" ">> \o wSol

cChainXeth == Sigil \o wBlockchain \o <<" ", "x">> \o wEth

cChainBtc == Sigil \o wBlockchain \o <<" ", "b", "t", "c">>

cFoo == Sigil \o <<"f", "o", "o">>

\* >clear followed by a carriage return and a word.
cClearReturn == Sigil \o wClear \o <<"\r", "n", "o", "w">>

\* Two Ethereum-shaped addresses, one Solana-shaped address, and a text that is
\* neither.
AddrE1 == <<"0", "x">> \o Rep("a", 40)

AddrE2 == <<"0", "x">> \o Rep("b", 40)

AddrS1 == Rep("S", 32)

Junk == <<"h", "i">>

\* What an administrator (author 200, no role) sends, with the mention lists the
\* platform derives from the text: a mention of a channel or role that does not
\* exist in the guild is not listed.
AdminTexts ==
    { <<cSetChannel, <<10>>, << >> >>,
      <<cSetChannelTrailing, <<10>>, << >> >>,
      <<cSetChannelUnknown, << >>, << >> >>,
      <<cSetRole, << >>, <<20>> >>,
      <<cSetRoleBare, << >>, << >> >>,
      <<cChainEth, << >>, << >> >>,
      <<cChainSol, << >>, << >> >>,
      <<cChainXeth, << >>, << >> >>,
      <<cChainBtc, << >>, << >> >>,
      <<Sigil \o wConfig, << >>, << >> >>,
      <<Sigil \o wData, << >>, << >> >>,
      <<Sigil \o wClear, << >>, << >> >>,
      <<cClearReturn, << >>, << >> >>,
      <<Sigil \o wHelpAdmin, << >>, << >> >>,
      <<Sigil \o wHelp, << >>, << >> >>,
      <<Sigil \o wCheck, << >>, << >> >>,
      <<cFoo, << >>, << >> >> }

\* What a member without administrator privilege sends with the sigil.
MemberTexts ==
    { <<cSetChannel, <<10>>, << >> >>,
      <<cSetRole, << >>, <<20>> >>,
      <<cChainEth, << >>, << >> >>,
      <<Sigil \o wClear, << >>, << >> >>,
      <<Sigil \o wCheck, << >>, << >> >> }

\* Plain texts: each varies one thing of the submission a member with role 20
\* sends in channel 10.
Submissions(g) ==
    { Msg(g, 10, 100, FALSE, TRUE, FALSE, {20}, AddrE1, << >>, << >>),
      Msg(g, 10, 100, FALSE, TRUE, FALSE, {20}, AddrE2, << >>, << >>),
      Msg(g, 10, 100, FALSE, TRUE, FALSE, {20}, AddrS1, << >>, << >>),
      Msg(g, 10, 100, FALSE, TRUE, FALSE, {20}, Junk, << >>, << >>),
      Msg(g, 11, 100, FALSE, TRUE, FALSE, {20}, AddrE1, << >>, << >>),
      Msg(g, 10, 100, FALSE, TRUE, FALSE, {21}, AddrE1, << >>, << >>),
      Msg(g, 10, 101, FALSE, TRUE, FALSE, {20, 21}, AddrE2, << >>, << >>),
      Msg(g, 10, 300, TRUE, TRUE, FALSE, {20}, AddrE1, << >>, << >>),
      Msg(g, 10, 301, FALSE, FALSE, FALSE, {}, AddrE1, << >>, << >>) }

MessagesOf(g) ==
    { Msg(g, 10, 200, FALSE, TRUE, TRUE, {}, x[1], x[2], x[3]) : x \in AdminTexts }
    \cup { Msg(g, 10, 100, FALSE, TRUE, FALSE, {20}, x[1], x[2], x[3]) : x \in MemberTexts }
    \cup Submissions(g)

\* The events of a second guild that go on beside those of the first: its
\* administrator sets the channel, clears and exports, a member checks and submits.
BesideOf(g) ==
    { Msg(g, 10, 200, FALSE, TRUE, TRUE, {}, cSetChannel, <<10>>, << >>),
      Msg(g, 10, 200, FALSE, TRUE, TRUE, {}, Sigil \o wClear, << >>, << >>),
      Msg(g, 10, 200, FALSE, TRUE, TRUE, {}, Sigil \o wData, << >>, << >>),
      Msg(g, 10, 100, FALSE, TRUE, FALSE, {20}, Sigil \o wCheck, << >>, << >>),
      Msg(g, 10, 100, FALSE, TRUE, FALSE, {20}, AddrE1, << >>, << >>) }

Messages == MessagesOf(1) \cup BesideOf(2)

\* ------------------------------------------------------------------ store

GUILD_TEMPLATE ==
    [whitelist_channel |-> None, whitelist_role |-> None, blockchain |-> None,
     data |-> EmptyDict]

\* The value of an optional field that is set.
Get(opt) == CHOOSE x \in opt : TRUE

\* backup_data: the snapshot is the whole store, written over the previous one.
BackupData(d) == Some(d)

\* The store the process starts with: json.load of the snapshot, {} without one.
Load(file) == IF file = None THEN EmptyDict ELSE Get(file)

\* Guild configs a snapshot left by an earlier run can hold.
Snapshots ==
    LET ch == Some(10)
        ro == Some(20)
        e1 == [k \in {KeyOf(100)} |-> AddrE1]
    IN { GUILD_TEMPLATE,
         [whitelist_channel |-> ch, whitelist_role |-> ro, blockchain |-> None,
          data |-> EmptyDict],
         [whitelist_channel |-> ch, whitelist_role |-> ro, blockchain |-> Some(wEth),
          data |-> EmptyDict],
         [whitelist_channel |-> ch, whitelist_role |-> ro, blockchain |-> Some(wEth),
          data |-> e1],
         [whitelist_channel |-> ch, whitelist_role |-> ro, blockchain |-> Some(wSol),
          data |-> [k \in {KeyOf(101)} |-> AddrS1]] }

\* The stores a snapshot left by an earlier run can hold: no guild, the first
\* guild alone, or both guilds, new or with an entry each.
InitStores ==
    {EmptyDict}
    \cup { [k \in {KeyOf(1)} |-> c] : c \in Snapshots }
    \cup { [k \in {KeyOf(1), KeyOf(2)} |-> c] :
             c \in { x \in Snapshots :
                       x = GUILD_TEMPLATE \/ (x.blockchain = Some(wEth) /\ x.data # EmptyDict) } }

\* ------------------------------------------------------ command handlers

\* What a handler call leaves when control comes back to the event loop or to
\* on_message: the exception it raised ("none" when it did not raise), the store
\* and the staging files, the await it is suspended at (a source line, "none"
\* when it is not suspended) and what it wrote to the store (None: nothing).
Suspended(d, st, line, w) ==
    [exc |-> "none", data |-> d, staging |-> st, pc |-> line, wrote |-> w]

Raised(e, d, st) ==
    [exc |-> e, data |-> d, staging |-> st, pc |-> "none", wrote |-> None]

\* A record of one assignment to the store: the guild key, the field of the
\* guild's config ("config" for the whole config), for an entry the member key,
\* and the value assigned.
Wrote(k, field, key, value) ==
    Some([guild |-> k, field |-> field, key |-> key, value |-> value])

\* Whether store d holds the value assignment w wrote.
Holds(d, w) ==
    /\ w.guild \in DOMAIN d
    /\ CASE w.field = "config" -> d[w.guild] = w.value
         [] w.field = "whitelist_channel" -> d[w.guild].whitelist_channel = w.value
         [] w.field = "whitelist_role" -> d[w.guild].whitelist_role = w.value
         [] w.field = "blockchain" -> d[w.guild].blockchain = w.value
         [] w.field = "data" ->
                /\ w.key \in DOMAIN d[w.guild].data
                /\ d[w.guild].data[w.key] = w.value

\* set_whitelist_channel, up to its await of message.reply.
set_whitelist_channel(d, st, m) ==
    LET k == KeyOf(m.guild) IN
    IF Len(m.channel_mentions) # 1 \/ ~MatchChannel(m.content)
    THEN Raised("InvalidCommand", d, st)
    ELSE IF k \notin DOMAIN d THEN Raised("KeyError", d, st)
    ELSE LET v == Some(m.channel_mentions[1]) IN
         Suspended([d EXCEPT ![k].whitelist_channel = v], st, "L94",
                   Wrote(k, "whitelist_channel", "", v))

\* set_whitelist_role unsetting the role when the store has the mentioned role
\* already.
set_whitelist_roleToggle(d, st, m) ==
    LET k == KeyOf(m.guild) IN
    IF Len(m.role_mentions) # 1 \/ ~MatchRole(m.content)
    THEN Raised("InvalidCommand", d, st)
    ELSE IF k \notin DOMAIN d THEN Raised("KeyError", d, st)
    ELSE LET v == IF d[k].whitelist_role = Some(m.role_mentions[1])
                  THEN None ELSE Some(m.role_mentions[1])
         IN Suspended([d EXCEPT ![k].whitelist_role = v], st, "L110",
                      Wrote(k, "whitelist_role", "", v))

\* set_whitelist_role, up to its await of message.reply.
set_whitelist_role(d, st, m) ==
    LET k == KeyOf(m.guild) IN
    IF Len(m.role_mentions) # 1 \/ ~MatchRole(m.content)
    THEN Raised("InvalidCommand", d, st)
    ELSE IF k \notin DOMAIN d THEN Raised("KeyError", d, st)
    ELSE LET v == Some(m.role_mentions[1]) IN
         Suspended([d EXCEPT ![k].whitelist_role = v], st, "L110",
                   Wrote(k, "whitelist_role", "", v))

\* set_blockchain, up to its await of message.reply.
set_blockchain(d, st, m) ==
    LET k == KeyOf(m.guild)
        code == LastChars(m.content, 3)
    IN IF code \in VALID_BLOCKCHAINS
       THEN IF k \notin DOMAIN d THEN Raised("KeyError", d, st)
            ELSE Suspended([d EXCEPT ![k].blockchain = Some(code)], st, "L125",
                           Wrote(k, "blockchain", "", Some(code)))
       ELSE Raised("InvalidCommand", d, st)

\* get_config, up to its await of message.reply.
get_config(d, st, m) ==
    IF KeyOf(m.guild) \notin DOMAIN d THEN Raised("KeyError", d, st)
    ELSE Suspended(d, st, "L142", None)

\* Lines 153-154: the rows written after the header, "<key>,<value>" for each
\* item of the entries; a row is kept as the pair of its two cells.
Rows(entries) == { <<a, entries[a]>> : a \in DOMAIN entries }

\* get_data writing the header and no row.
get_dataHeaderOnly(d, st, m) ==
    LET k == KeyOf(m.guild) IN
    IF k \notin DOMAIN d THEN Raised("KeyError", d, DictSet(st, k, {}))
    ELSE Suspended(d, DictSet(st, k, {}), "L156", None)

\* get_data, up to its await of message.reply: the staging file <guild id>.csv
\* is opened for writing (created or emptied), the header is written, then one
\* row for each item of the guild's entries.
get_data(d, st, m) ==
    LET k == KeyOf(m.guild) IN
    IF k \notin DOMAIN d THEN Raised("KeyError", d, DictSet(st, k, {}))
    ELSE Suspended(d, DictSet(st, k, Rows(d[k].data)), "L156", None)

\* clear_data resetting the three settings and keeping the entries.
clear_dataKeepsEntries(d, st, m) ==
    LET k == KeyOf(m.guild)
        c == IF k \in DOMAIN d THEN [GUILD_TEMPLATE EXCEPT !.data = d[k].data]
             ELSE GUILD_TEMPLATE
    IN Suspended(DictSet(d, k, c), st, "L167", Wrote(k, "config", "", c))

\* clear_data resetting the config of every guild of the store.
clear_dataEveryGuild(d, st, m) ==
    LET k == KeyOf(m.guild) IN
    Suspended([g \in (DOMAIN d) \cup {k} |-> GUILD_TEMPLATE], st, "L167",
              Wrote(k, "config", "", GUILD_TEMPLATE))

\* clear_data, up to its await of message.reply.
clear_data(d, st, m) ==
    LET k == KeyOf(m.guild) IN
    Suspended(DictSet(d, k, GUILD_TEMPLATE), st, "L167",
              Wrote(k, "config", "", GUILD_TEMPLATE))

\* help_admin, up to its await of message.reply.
help_admin(d, st, m) == Suspended(d, st, "L180", None)

\* help, up to its await of message.reply.
help(d, st, m) == Suspended(d, st, "L193", None)

\* check, up to its await of message.reply.
check(d, st, m) ==
    LET k == KeyOf(m.guild) IN
    IF k \notin DOMAIN d THEN Raised("KeyError", d, st)
    ELSE IF KeyOf(m.author) \in DOMAIN d[k].data
         THEN Suspended(d, st, "L198", None)
         ELSE Suspended(d, st, "L200", None)

\* self.admin_commands[command](message)
AdminHandler(command, d, st, m) ==
    CASE command = wChannel -> set_whitelist_channel(d, st, m)
      [] command = wRole -> set_whitelist_role(d, st, m)
      [] command = wBlockchain -> set_blockchain(d, st, m)
      [] command = wData -> get_data(d, st, m)
      [] command = wConfig -> get_config(d, st, m)
      [] command = wClear -> clear_data(d, st, m)
      [] command = wHelpAdmin -> help_admin(d, st, m)

\* self.public_commands[command](message)
PublicHandler(command, d, st, m) ==
    CASE command = wHelp -> help(d, st, m)
      [] command = wCheck -> check(d, st, m)

\* -------------------------------------------------------------- on_message

\* What a run of on_message leaves when control comes back to the event loop:
\* pc is the await it is suspended at or "done"; ended is how it ended ("none"
\* while it has not): "dropped" at line 212, "returned", or "fault" in the
\* except clause of line 251, which logs the exception.
AtAwait(d, st, line, w) ==
    [data |-> d, staging |-> st, pc |-> line, ended |-> "none", wrote |-> w]

Ended(d, st, how) ==
    [data |-> d, staging |-> st, pc |-> "done", ended |-> how, wrote |-> None]

\* Line 211: the event is dropped.
Dropped(m) == m.bot \/ ~m.member

\* Line 215 without its test of guild_permissions.administrator.
IsAdminCommandAnyone(m) == StartsWith(m.content, Sigil)

\* Line 215: the text is looked up in the administrator table.
IsAdminCommand(m) == m.admin /\ StartsWith(m.content, Sigil)

\* Lines 240-242 without the test of the author's roles.
IsSubmissionAnyRole(c, m) ==
    /\ Some(m.channel) = c.whitelist_channel
    /\ ~StartsWith(m.content, Sigil)

\* Lines 240-242 for a guild whose config is c: the message is a submission.
IsSubmission(c, m) ==
    /\ Some(m.channel) = c.whitelist_channel
    /\ c.whitelist_role # None
    /\ Get(c.whitelist_role) \in m.roles
    /\ ~StartsWith(m.content, Sigil)

\* Lines 244-245 assigning a new dict that holds the author's entry alone.
RecordEntryAlone(d, k, a, text) ==
    [d EXCEPT ![k].data = [x \in {KeyOf(a)} |-> text]]

\* Lines 244-245 adding the text to the value the author has, when there is one.
RecordEntryJoined(d, k, a, text) ==
    [d EXCEPT ![k].data =
        DictSet(@, KeyOf(a), IF KeyOf(a) \in DOMAIN @ THEN @[KeyOf(a)] \o text ELSE text)]

\* Lines 244-245: self.data[guild]['data'][str(author.id)] = message.content
RecordEntry(d, k, a, text) == [d EXCEPT ![k].data = DictSet(@, KeyOf(a), text)]

\* Lines 240-250 recording the text unvalidated when the guild has no ledger
\* type, where line 243 raises.
FromL240Unvalidated(d, st, m) ==
    LET k == KeyOf(m.guild) IN
    IF k \notin DOMAIN d THEN Ended(d, st, "fault")
    ELSE IF IsSubmission(d[k], m)
    THEN IF d[k].blockchain = None \/ Validate(Get(d[k].blockchain), m.content)
         THEN AtAwait(RecordEntry(d, k, m.author, m.content), st, "L246",
                      Wrote(k, "data", KeyOf(m.author), m.content))
         ELSE AtAwait(d, st, "L250", None)
    ELSE Ended(d, st, "returned")

\* Lines 240-250, up to the await of a reply.
FromL240(d, st, m) ==
    LET k == KeyOf(m.guild) IN
    IF k \notin DOMAIN d THEN Ended(d, st, "fault")
    ELSE IF IsSubmission(d[k], m)
    THEN IF d[k].blockchain = None \/ ~HasValidator(Get(d[k].blockchain))
         THEN Ended(d, st, "fault")
         ELSE IF Validate(Get(d[k].blockchain), m.content)
              THEN AtAwait(RecordEntry(d, k, m.author, m.content), st, "L246",
                           Wrote(k, "data", KeyOf(m.author), m.content))
              ELSE AtAwait(d, st, "L250", None)
    ELSE Ended(d, st, "returned")

\* Lines 226-250, up to the await of a reply.
FromL226(d, st, m) ==
    IF StartsWith(m.content, Sigil)
    THEN IF CommandOf(m.content) \in PublicCommands
         THEN LET h == PublicHandler(CommandOf(m.content), d, st, m) IN
              IF h.exc = "none" THEN AtAwait(h.data, h.staging, h.pc, h.wrote)
              ELSE Ended(h.data, h.staging, "fault")
         ELSE AtAwait(d, st, "L237", None)
    ELSE FromL240(d, st, m)

\* on_message from its first line up to its first await, or to its end.
OnMessage(d, st, m) ==
    IF Dropped(m) THEN Ended(d, st, "dropped")
    ELSE IF IsAdminCommand(m) /\ CommandOf(m.content) \in AdminCommands
    THEN LET h == AdminHandler(CommandOf(m.content), d, st, m) IN
         CASE h.exc = "none" -> AtAwait(h.data, h.staging, h.pc, h.wrote)
           [] h.exc = "InvalidCommand" -> AtAwait(h.data, h.staging, "L224", None)
           [] OTHER -> Ended(h.data, h.staging, "fault")
    ELSE FromL226(d, st, m)

\* The awaits inside the handlers of the administrator table, get_data apart:
\* after the reply, on_message runs backup_data and returns (lines 221-222).
AdminAwaits == {"L94", "L110", "L125", "L142", "L167", "L180"}

\* The awaits inside the public handlers, followed by the return of line 232.
PublicAwaits == {"L193", "L198", "L200"}

\* What the reply awaited at a line tells the user.
ReplyAt(line) ==
    CASE line = "L94" -> "channel_set"
      [] line = "L110" -> "role_set"
      [] line = "L125" -> "blockchain_set"
      [] line = "L142" -> "config"
      [] line = "L156" -> "data_file"
      [] line = "L167" -> "cleared"
      [] line = "L180" -> "help_admin"
      [] line = "L193" -> "help"
      [] line = "L198" -> "whitelisted"
      [] line = "L200" -> "not_whitelisted"
      [] line = "L224" -> "invalid_argument"
      [] line = "L237" -> "valid_commands"
      [] line = "L246" -> "recorded"
      [] line = "L250" -> "invalid_address"

\* The awaits after which on_message still reads the message.
ReadsMessage == {"L224", "L237"}

\* The assignment w made to store d.
Assign(d, w) ==
    CASE w.field = "config" -> DictSet(d, w.guild, w.value)
      [] w.field = "whitelist_channel" -> [d EXCEPT ![w.guild].whitelist_channel = w.value]
      [] w.field = "whitelist_role" -> [d EXCEPT ![w.guild].whitelist_role = w.value]
      [] w.field = "blockchain" -> [d EXCEPT ![w.guild].blockchain = w.value]
      [] w.field = "data" -> [d EXCEPT ![w.guild].data = DictSet(@, w.key, w.value)]

\* A handler that assigns once more after its reply has been sent.
AfterReplyAssigns(line, d, w) ==
    IF w # None /\ Get(w).guild \in DOMAIN d THEN Assign(d, Get(w)) ELSE d

\* What the code of a handler after its await at `line` leaves of store d, the
\* handler having written w before the await: every handler of the two tables
\* ends with its reply (lines 94-95, 110-111, 125-126, 142, 167, 180), so the
\* store is as the event loop left it.
AfterReply(line, d, w) == d

\* The store after on_message has handled m from store d with no other handler
\* running: each await is followed at once by the code after it.
RunAlone(d, st, m) ==
    LET r1 == OnMessage(d, st, m)
        r2 == IF r1.pc = "L224" THEN FromL226(r1.data, r1.staging, m) ELSE r1
        r3 == IF r2.pc = "L237" THEN FromL240(r2.data, r2.staging, m) ELSE r2
    IN IF r3.pc \in AdminAwaits THEN AfterReply(r3.pc, r3.data, r3.wrote) ELSE r3.data

\* ------------------------------------------------------------------- state

VARIABLES
    data,     \* self.data: guild key -> guild config
    disk,     \* data.json: None, or the store last written
    staging,  \* the files <guild id>.csv: guild key -> the rows written
    task,     \* the handler of the i-th delivered event
    ready,    \* on_ready: how many guilds its loop has seen, which it added
    event,    \* the message delivered, where the delivery is observed
    serial    \* the store had each event been handled alone, in arrival order

vars == <<data, disk, staging, task, ready, event, serial>>

Tasks == 1..MaxEvents

\* A handler task: the handler it runs ("none" before its event arrives), where
\* it is suspended, the guild key of its event, the message while the code ahead
\* still reads it, the replies it has sent, how it ended, and what it wrote to
\* the store.
Idle ==
    [of |-> "none", pc |-> "idle", guild |-> "", msg |-> None, sent |-> << >>,
     ended |-> "none", wrote |-> None]

Init ==
    /\ disk \in {None} \cup { Some(s) : s \in InitStores }
    /\ data = Load(disk)
    /\ staging = EmptyDict
    /\ task = [t \in Tasks |-> Idle]
    /\ ready = [next |-> 1, added |-> {}]
    /\ event = None
    /\ serial = data

\* The task the event loop creates for the next event.
HasFree == \E t \in Tasks : task[t].pc = "idle"

Free == CHOOSE t \in Tasks : task[t].pc = "idle" /\ \A u \in 1..(t - 1) : task[u].pc # "idle"

\* on_message is called with m and runs to its first await or to its end.
Start(m) ==
    /\ HasFree
    /\ LET r == OnMessage(data, staging, m) IN
       /\ data' = r.data
       /\ staging' = r.staging
       /\ task' = [task EXCEPT ![Free] =
                     [of |-> "on_message", pc |-> r.pc, guild |-> KeyOf(m.guild),
                      msg |-> IF r.pc \in ReadsMessage THEN Some(m) ELSE None,
                      sent |-> << >>, ended |-> r.ended, wrote |-> r.wrote]]
    /\ serial' = RunAlone(serial, staging, m)
    /\ UNCHANGED <<disk, ready>>

Deliver(m) == Start(m) /\ UNCHANGED event

\* The one delivery that is observed: the message is kept beside the state.
Observe(m) == event = None /\ Start(m) /\ event' = Some(m)

\* The reply of an administrator handler is sent: the handler ends, then
\* backup_data and return (lines 221-222).
ResumeAdmin(t) ==
    /\ task[t].pc \in AdminAwaits
    /\ data' = AfterReply(task[t].pc, data, task[t].wrote)
    /\ disk' = BackupData(data')
    /\ task' = [task EXCEPT ![t].pc = "done", ![t].ended = "returned",
                            ![t].sent = Append(@, ReplyAt(task[t].pc))]
    /\ UNCHANGED <<staging, ready, event, serial>>

\* The reply of get_data is sent: os.remove of the staging file, which raises
\* when the file is not there; then backup_data and return.
ResumeData(t) ==
    /\ task[t].pc = "L156"
    /\ LET k == task[t].guild IN
       IF k \in DOMAIN staging
       THEN /\ staging' = [x \in (DOMAIN staging) \ {k} |-> staging[x]]
            /\ disk' = BackupData(data)
            /\ task' = [task EXCEPT ![t].pc = "done", ![t].ended = "returned",
                                    ![t].sent = Append(@, ReplyAt("L156"))]
       ELSE /\ task' = [task EXCEPT ![t].pc = "done", ![t].ended = "fault",
                                    ![t].sent = Append(@, ReplyAt("L156"))]
            /\ UNCHANGED <<staging, disk>>
    /\ UNCHANGED <<data, ready, event, serial>>

\* The reply of a public handler is sent: return (line 232).
ResumePublic(t) ==
    /\ task[t].pc \in PublicAwaits
    /\ task' = [task EXCEPT ![t].pc = "done", ![t].ended = "returned",
                            ![t].sent = Append(@, ReplyAt(task[t].pc))]
    /\ UNCHANGED <<data, disk, staging, ready, event, serial>>

\* The reply of line 224 or of line 237 is sent: on_message goes on, from line
\* 226 or from line 240, to its next await or to its end.
ResumeRouter(t) ==
    /\ task[t].pc \in ReadsMessage
    /\ LET m == Get(task[t].msg)
           r == IF task[t].pc = "L224" THEN FromL226(data, staging, m)
                ELSE FromL240(data, staging, m)
       IN /\ data' = r.data
          /\ staging' = r.staging
          /\ task' = [task EXCEPT ![t] =
                        [of |-> task[t].of, pc |-> r.pc, guild |-> task[t].guild,
                         msg |-> IF r.pc \in ReadsMessage THEN Some(m) ELSE None,
                         sent |-> Append(task[t].sent, ReplyAt(task[t].pc)),
                         ended |-> r.ended,
                         wrote |-> IF r.wrote # None THEN r.wrote ELSE task[t].wrote]]
    /\ UNCHANGED <<disk, ready, event, serial>>

\* The confirmation of line 246 is sent: backup_data, and on_message ends.
ResumeRecorded(t) ==
    /\ task[t].pc = "L246"
    /\ disk' = BackupData(data)
    /\ task' = [task EXCEPT ![t].pc = "done", ![t].ended = "returned",
                            ![t].sent = Append(@, ReplyAt("L246"))]
    /\ UNCHANGED <<data, staging, ready, event, serial>>

\* The reply of line 250 is sent, and on_message ends.
ResumeInvalid(t) ==
    /\ task[t].pc = "L250"
    /\ task' = [task EXCEPT ![t].pc = "done", ![t].ended = "returned",
                            ![t].sent = Append(@, ReplyAt("L250"))]
    /\ UNCHANGED <<data, disk, staging, ready, event, serial>>

Resume(t) ==
    \/ ResumeAdmin(t)
    \/ ResumeData(t)
    \/ ResumePublic(t)
    \/ ResumeRouter(t)
    \/ ResumeRecorded(t)
    \/ ResumeInvalid(t)

\* Lines 76-78 and 263-264: the guild gets a default config unless it has one.
AddGuild(d, g) ==
    IF KeyOf(g) \notin DOMAIN d THEN DictSet(d, KeyOf(g), GUILD_TEMPLATE) ELSE d

\* on_guild_join, which has no await: it runs to its end.
Join(g) ==
    /\ HasFree
    /\ data' = AddGuild(data, g)
    /\ task' = [task EXCEPT ![Free] =
                  [of |-> "on_guild_join", pc |-> "done", guild |-> KeyOf(g),
                   msg |-> None, sent |-> << >>,
                   ended |-> "returned",
                   wrote |-> IF KeyOf(g) \notin DOMAIN data
                             THEN Wrote(KeyOf(g), "config", "", GUILD_TEMPLATE)
                             ELSE None]]
    /\ serial' = AddGuild(serial, g)
    /\ UNCHANGED <<disk, staging, ready, event>>

\* One turn of the loop of on_ready (lines 75-78), which is suspended between
\* two guilds while fetch_guilds() fetches.
ReadyStep ==
    /\ ready.next <= Len(FetchOrder)
    /\ LET g == FetchOrder[ready.next] IN
       /\ data' = AddGuild(data, g)
       /\ serial' = AddGuild(serial, g)
       /\ ready' = [next |-> ready.next + 1,
                    added |-> IF KeyOf(g) \notin DOMAIN data
                              THEN ready.added \cup {KeyOf(g)} ELSE ready.added]
    /\ UNCHANGED <<disk, staging, task, event>>

\* Message and join events handled concurrently: a handler suspended at an
\* await lets the others start and resume.
Next ==
    \/ \E m \in Messages : Deliver(m)
    \/ \E g \in Guilds : Join(g)
    \/ \E t \in Tasks : Resume(t)

Spec == Init /\ [][Next]_vars

\* One observed message, handled while on_ready reconciles the guilds and join
\* events come in.
NextRoute ==
    \/ \E m \in Messages : Observe(m)
    \/ \E g \in Guilds : Join(g)
    \/ ReadyStep
    \/ \E t \in Tasks : Resume(t)

SpecRoute == Init /\ [][NextRoute]_vars

\* The message delivered before is sent again: on_message is called with a
\* message of the same guild, author, channel and text.
Again == event # None /\ Start(Get(event)) /\ UNCHANGED event

\* One message, then the same message again, as often as handlers are left.
NextTwice ==
    \/ \E m \in Messages : Observe(m)
    \/ Again
    \/ \E t \in Tasks : Resume(t)

SpecTwice == Init /\ [][NextTwice]_vars

\* The except clause of line 251 putting back the store of the snapshot.
ReplyFailsRollsBack(t) ==
    /\ task[t].pc \notin {"idle", "done"}
    /\ data' = IF task[t].wrote # None /\ disk # None THEN Get(disk) ELSE data
    /\ task' = [task EXCEPT ![t].pc = "done", ![t].ended = "fault", ![t].msg = None]
    /\ UNCHANGED <<disk, staging, ready, event, serial>>

\* The reply a handler awaits raises (the request to the platform fails): the
\* exception leaves the handler and on_message through the except clause of
\* line 251, which logs it. Nothing after the await runs: no backup_data, no
\* os.remove.
ReplyFails(t) ==
    /\ task[t].pc \notin {"idle", "done"}
    /\ task' = [task EXCEPT ![t].pc = "done", ![t].ended = "fault", ![t].msg = None]
    /\ UNCHANGED <<data, disk, staging, ready, event, serial>>

\* The reply is sent and backup_data raises (lines 221, 248): the except clause
\* of line 251 logs it. open(..., 'w+') either failed, and the snapshot is the
\* previous one, or had emptied the file before the write failed, and no store
\* is left in it. After the reply of get_data, os.remove of line 158 has removed
\* the staging file before line 221 is reached (when the file is not there,
\* os.remove raises first: ResumeData).
BackupFails(t) ==
    /\ \/ task[t].pc \in AdminAwaits \cup {"L246"} /\ staging' = staging
       \/ /\ task[t].pc = "L156"
          /\ task[t].guild \in DOMAIN staging
          /\ staging' = [x \in (DOMAIN staging) \ {task[t].guild} |-> staging[x]]
    /\ data' = AfterReply(task[t].pc, data, task[t].wrote)
    /\ disk' \in {disk, None}
    /\ task' = [task EXCEPT ![t].pc = "done", ![t].ended = "fault",
                            ![t].sent = Append(@, ReplyAt(task[t].pc))]
    /\ UNCHANGED <<ready, event, serial>>

\* The events handled while replies and snapshot writes fail: in the first guild
\* the administrator sets the channel and the ledger type, sends a command
\* without its argument, exports and clears, and the member checks, submits an
\* address and submits a text that is none; in the second guild the
\* administrator sets the channel and the member submits.
FaultMessages ==
    { m \in Messages :
        \/ /\ m.guild = 1 /\ m.admin
           /\ m.content \in {cSetChannel, cSetRoleBare, cChainEth, Sigil \o wData,
                              Sigil \o wClear}
        \/ /\ m.guild = 1 /\ ~m.admin /\ m.author = 100 /\ m.channel = 10 /\ m.roles = {20}
           /\ m.content \in {Sigil \o wCheck, AddrE1, Junk}
        \/ /\ m.guild = 2
           /\ m.content \in {cSetChannel, AddrE1} }

\* The concurrent handlers, each of whose replies and snapshot writes can fail.
NextFault ==
    \/ \E m \in FaultMessages : Deliver(m)
    \/ \E g \in Guilds : Join(g)
    \/ \E t \in Tasks : Resume(t)
    \/ \E t \in Tasks : ReplyFails(t)
    \/ \E t \in Tasks : BackupFails(t)

SpecFault == Init /\ [][NextFault]_vars

\* A start with no snapshot, or with one in which every guild has the default
\* config.
InitFresh ==
    /\ disk \in {None, Some([k \in {KeyOf(1)} |-> GUILD_TEMPLATE]),
                 Some([k \in {KeyOf(1), KeyOf(2)} |-> GUILD_TEMPLATE])}
    /\ data = Load(disk)
    /\ staging = EmptyDict
    /\ task = [t \in Tasks |-> Idle]
    /\ ready = [next |-> 1, added |-> {}]
    /\ event = None
    /\ serial = data

\* The events that take the first guild from the default config to a recorded
\* entry and back: the administrator sets channel, role and ledger type and
\* clears; the member submits an address.
FreshMessages ==
    { m \in Messages :
        /\ m.guild = 1
        /\ \/ m.admin /\ m.content \in {cSetChannel, cSetRole, cChainEth, Sigil \o wClear}
           \/ /\ ~m.admin /\ m.author = 100 /\ m.channel = 10 /\ m.roles = {20}
              /\ m.content = AddrE1 }

\* The event loop drops the task of a handler that has ended; the next event
\* gets a task of its own.
Retire(t) ==
    /\ task[t].pc = "done"
    /\ task' = [task EXCEPT ![t] = Idle]
    /\ UNCHANGED <<data, disk, staging, ready, event, serial>>

\* Any number of those events, as many handlers under way at a time as there
\* are tasks; their handlers await the replies of the setting commands and of
\* >clear, and the confirmation of line 246.
NextFresh ==
    \/ \E m \in FreshMessages : Deliver(m)
    \/ \E g \in Guilds : Join(g)
    \/ \E t \in Tasks : ResumeAdmin(t)
    \/ \E t \in Tasks : ResumeRecorded(t)
    \/ \E t \in Tasks : Retire(t)

SpecFresh == InitFresh /\ [][NextFresh]_vars

\* ------------------------------------------------------------------ claims

\* The task that runs on_message for the observed message.
IsMessageTask(t) == task[t].of = "on_message"

\* This step delivers the observed message.
Delivers == event = None /\ event' # None

\* The gate of a submission, read off the claim: the guild has a config with
\* channel, role and ledger type set, the author is a member (no bot) holding the
\* role, the channel is the configured one, the text has no sigil and the
\* validator of the ledger type accepts it.
Eligible(d, m) ==
    LET k == KeyOf(m.guild) IN
    /\ k \in DOMAIN d
    /\ d[k].whitelist_channel # None
    /\ d[k].whitelist_role # None
    /\ d[k].blockchain # None
    /\ ~m.bot /\ m.member
    /\ m.channel \in d[k].whitelist_channel
    /\ \E r \in m.roles : r \in d[k].whitelist_role
    /\ m.content[1] # ">"
    /\ \/ Get(d[k].blockchain) = wEth /\ validate_eth(m.content)
       \/ Get(d[k].blockchain) = wSol /\ validate_sol(m.content)

\* C1: an eligible submission (configured guild, configured channel, author
\* holding the role, no sigil, text accepted by the validator of the ledger type)
\* leaves entries[author] equal to the text, whatever was stored for the author
\* before, and leaves the rest of the store, every other member's entry
\* included, as it was.
C1_SubmissionRecorded ==
    [][ (Delivers /\ Eligible(data, Get(event')))
        => LET m == Get(event')
               k == KeyOf(m.guild)
               a == KeyOf(m.author)
           IN /\ DOMAIN data' = DOMAIN data
              /\ \A g \in DOMAIN data : g # k => data'[g] = data[g]
              /\ data'[k].whitelist_channel = data[k].whitelist_channel
              /\ data'[k].whitelist_role = data[k].whitelist_role
              /\ data'[k].blockchain = data[k].blockchain
              /\ DOMAIN data'[k].data = DOMAIN data[k].data \cup {a}
              /\ data'[k].data[a] = m.content
              /\ \A b \in DOMAIN data[k].data : b # a => data'[k].data[b] = data[k].data[b]
      ]_vars

\* C1's case: member 100 submitted the second address where the snapshot still
\* holds the first one for that member, and the store now holds the second.
C1_Witness ==
    /\ event # None
    /\ Get(event).content = AddrE2 /\ Get(event).author = 100
    /\ \E t \in Tasks : IsMessageTask(t) /\ task[t].pc = "L246"
    /\ disk # None
    /\ KeyOf(1) \in DOMAIN Get(disk)
    /\ KeyOf(100) \in DOMAIN Get(disk)[KeyOf(1)].data
    /\ Get(disk)[KeyOf(1)].data[KeyOf(100)] = AddrE1
    /\ data[KeyOf(1)].data[KeyOf(100)] = AddrE2

\* C2: whenever a step makes entries of a guild hold a value for a member that
\* it did not hold before, the step delivers a message of that member in that
\* guild whose text is the value and which passes the gate in the store as it
\* is at that moment: configured channel, role held, no sigil, ledger type set,
\* value accepted by its validator.
C2_OnlyEligibleRecorded ==
    [][ \A k \in DOMAIN data' : \A a \in DOMAIN data'[k].data :
          ( \/ k \notin DOMAIN data
            \/ a \notin DOMAIN data[k].data
            \/ data[k].data[a] # data'[k].data[a] )
          => /\ Delivers
             /\ KeyOf(Get(event').guild) = k
             /\ KeyOf(Get(event').author) = a
             /\ Get(event').content = data'[k].data[a]
             /\ Eligible(data, Get(event'))
      ]_vars

\* C2's case: a value was recorded for member 100 beside the entry member 101
\* had, in a guild whose ledger type is sol.
C2_Witness ==
    /\ event # None
    /\ Get(event).content = AddrS1
    /\ KeyOf(1) \in DOMAIN data
    /\ DOMAIN data[KeyOf(1)].data = {KeyOf(100), KeyOf(101)}
    /\ data[KeyOf(1)].data[KeyOf(100)] = AddrS1

\* The fields of the configs of store d that administrators set.
Settings(d) ==
    [k \in DOMAIN d |-> <<d[k].whitelist_channel, d[k].whitelist_role, d[k].blockchain>>]

\* C3: a message of an author without administrator privilege changes no
\* guild's channel, role or ledger type and resets no config (no entry is
\* lost), in the step that delivers it and in every later step of its handler;
\* when it starts with the sigil and its command is not in the public table,
\* the handler does nothing but send the list of valid public commands.
C3_NonAdminChangesNoConfig ==
    [][ /\ (Delivers /\ ~Get(event').admin)
           => /\ Settings(data') = Settings(data)
              /\ \A k \in DOMAIN data : DOMAIN data[k].data \subseteq DOMAIN data'[k].data
              /\ LET m == Get(event') IN
                 (~m.bot /\ m.member /\ m.content[1] = ">"
                    /\ CommandOf(m.content) \notin PublicCommands)
                 => /\ data' = data
                    /\ \E t \in Tasks : task[t].pc = "idle" /\ task'[t].pc = "L237"
        /\ \A t \in Tasks :
             (IsMessageTask(t) /\ event # None /\ ~Get(event).admin /\ task'[t] # task[t])
             => /\ data' = data
                /\ task[t].pc = "L237" => task'[t].sent = <<"valid_commands">>
      ]_vars

\* C3's case: a member without administrator privilege sent >clear in a guild
\* that is configured and has an entry; the handler has ended, having sent the
\* list of public commands, and the config and the entry are still there.
C3_Witness ==
    /\ event # None
    /\ ~Get(event).admin
    /\ Get(event).content = Sigil \o wClear
    /\ \E t \in Tasks :
         /\ IsMessageTask(t) /\ task[t].pc = "done"
         /\ task[t].sent = <<"valid_commands">>
    /\ KeyOf(1) \in DOMAIN data
    /\ data[KeyOf(1)].whitelist_channel = Some(10)
    /\ DOMAIN data[KeyOf(1)].data = {KeyOf(100)}

\* The task has recorded an entry (lines 244-245) and is at or past its
\* confirmation.
WroteEntry(t) ==
    /\ task[t].pc \in {"L246", "done"}
    /\ task[t].wrote # None
    /\ Get(task[t].wrote).field = "data"

\* The task has written to the entry of member key a of guild key k, or to the
\* whole config of that guild.
Touches(t, k, a) ==
    /\ task[t].wrote # None
    /\ Get(task[t].wrote).guild = k
    /\ \/ Get(task[t].wrote).field = "config"
       \/ Get(task[t].wrote).field = "data" /\ Get(task[t].wrote).key = a

\* C4: when two handlers have each recorded a submission of the same member in
\* the same guild and no third handler has written that entry or reset the
\* guild, the store holds one of the two texts for the member, under every
\* interleaving of their awaits; and once one of the two has run backup_data,
\* so does the snapshot.
C4_OneOfTwoTexts ==
    \A t1 \in Tasks : \A t2 \in Tasks \ {t1} :
      LET w1 == Get(task[t1].wrote)
          w2 == Get(task[t2].wrote)
      IN ( /\ WroteEntry(t1) /\ WroteEntry(t2)
           /\ w1.guild = w2.guild /\ w1.key = w2.key
           /\ \A u \in Tasks \ {t1, t2} : ~Touches(u, w1.guild, w1.key) )
         => /\ w1.guild \in DOMAIN data
            /\ w1.key \in DOMAIN data[w1.guild].data
            /\ data[w1.guild].data[w1.key] \in {w1.value, w2.value}
            /\ (task[t1].pc = "done" \/ task[t2].pc = "done")
               => /\ disk # None
                  /\ w1.guild \in DOMAIN Get(disk)
                  /\ w1.key \in DOMAIN Get(disk)[w1.guild].data
                  /\ Get(disk)[w1.guild].data[w1.key] \in {w1.value, w2.value}

\* C4's case: two submissions of one member with different texts were both
\* suspended at the confirmation; the first has since written the snapshot,
\* which holds the text of the second, still suspended.
C4_Witness ==
    /\ WroteEntry(1) /\ WroteEntry(2)
    /\ task[1].pc = "done" /\ task[2].pc = "L246"
    /\ Get(task[1].wrote).guild = Get(task[2].wrote).guild
    /\ Get(task[1].wrote).key = Get(task[2].wrote).key
    /\ Get(task[1].wrote).value # Get(task[2].wrote).value
    /\ disk # None
    /\ Get(disk)[Get(task[2].wrote).guild].data[Get(task[2].wrote).key]
         = Get(task[2].wrote).value

\* C5: when a handler that wrote to a guild's config has ended and the store
\* still holds what it wrote, the snapshot holds it too; the same for the
\* default configs on_ready added, once its loop is over.
C5_EndedMeansPersisted ==
    /\ \A t \in Tasks :
         (task[t].pc = "done" /\ task[t].wrote # None /\ Holds(data, Get(task[t].wrote)))
         => (disk # None /\ Holds(Get(disk), Get(task[t].wrote)))
    /\ ready.next > Len(FetchOrder)
       => \A k \in ready.added :
            data[k] = GUILD_TEMPLATE
            => (disk # None /\ k \in DOMAIN Get(disk) /\ Get(disk)[k] = GUILD_TEMPLATE)

\* The task has written to the config of guild key k and has not yet run
\* backup_data.
InFlight(t, k) ==
    /\ task[t].pc \in AdminAwaits \cup {"L246"}
    /\ task[t].wrote # None
    /\ Get(task[t].wrote).guild = k

\* C6: no two handlers are at the same time between their write to the config
\* of one guild and their backup_data.
C6_OneMutationInFlight ==
    \A t1 \in Tasks : \A t2 \in Tasks \ {t1} : \A g \in Guilds :
      ~(InFlight(t1, KeyOf(g)) /\ InFlight(t2, KeyOf(g)))

\* C7: under every interleaving of the handlers' awaits the store is the one
\* obtained by handling the events one after the other, each to its end, in
\* the order they were delivered.
C7_ArrivalOrder == data = serial

\* C7's case: two commands setting the ledger type of one guild to different
\* codes; the second was delivered, and ended, while the first is still
\* suspended at its reply, and the store holds the code of the second.
C7_Witness ==
    /\ task[1].pc = "L125" /\ task[2].pc = "done"
    /\ task[2].wrote # None
    /\ Get(task[2].wrote).field = "blockchain"
    /\ Get(task[1].wrote).guild = Get(task[2].wrote).guild
    /\ Get(task[1].wrote).value # Get(task[2].wrote).value
    /\ data[Get(task[2].wrote).guild].blockchain = Get(task[2].wrote).value

\* C8: a handler that has sent the invalid-argument notice of line 224 has
\* ended, and that notice is all it has sent.
C8_InvalidCommandEnds ==
    \A t \in Tasks :
      (IsMessageTask(t) /\ task[t].sent # << >> /\ task[t].sent[1] = "invalid_argument")
      => /\ task[t].pc = "done"
         /\ task[t].ended = "returned"
         /\ task[t].sent = <<"invalid_argument">>

\* The message passes the gate of a submission in store d but for the ledger
\* type, which is unset.
UnsetLedgerSubmission(d, m) ==
    LET k == KeyOf(m.guild) IN
    /\ k \in DOMAIN d
    /\ ~m.bot /\ m.member
    /\ m.channel \in d[k].whitelist_channel
    /\ \E r \in m.roles : r \in d[k].whitelist_role
    /\ m.content[1] # ">"
    /\ d[k].blockchain = None

\* C9: the handler of a submission sent while the ledger type is unset ends
\* with a reply to the member, not in the except clause, and records nothing.
C9_UnsetLedgerRejected ==
    \A t \in Tasks :
      ( /\ IsMessageTask(t) /\ task[t].pc = "done"
        /\ event # None /\ UnsetLedgerSubmission(data, Get(event)) )
      => /\ task[t].ended # "fault"
         /\ task[t].sent # << >>
         /\ data[task[t].guild].data = Load(disk)[task[t].guild].data

\* C10: every guild whose event a handler has handled to its end (events
\* dropped at line 212 apart) has a config, and no handler has ended in the
\* except clause for want of one.
C10_FirstAccessCreates ==
    \A t \in Tasks :
      (task[t].pc = "done" /\ task[t].ended # "dropped")
      => task[t].guild \in DOMAIN data

\* Store d is store s after one mutation: a guild added with the default config
\* (lines 78, 264), a config reset (line 166), one of the three settings assigned
\* (lines 93, 109, 124), or one entry assigned (lines 244-245).
OneMutation(s, d) ==
    \/ \E k \in (DOMAIN d) \ (DOMAIN s) : d = DictSet(s, k, GUILD_TEMPLATE)
    \/ /\ DOMAIN d = DOMAIN s
       /\ \E k \in DOMAIN s :
            /\ \A g \in (DOMAIN s) \ {k} : d[g] = s[g]
            /\ \/ d[k] = GUILD_TEMPLATE
               \/ d[k] = [s[k] EXCEPT !.whitelist_channel = d[k].whitelist_channel]
               \/ d[k] = [s[k] EXCEPT !.whitelist_role = d[k].whitelist_role]
               \/ d[k] = [s[k] EXCEPT !.blockchain = d[k].blockchain]
               \/ \E a \in DOMAIN d[k].data :
                    d[k] = [s[k] EXCEPT !.data = DictSet(@, a, d[k].data[a])]

\* C11: at every point of every interleaving, the store a restart would load
\* from the snapshot is the store in memory or the store in memory before its
\* most recent mutation: it lacks one mutation at most.
C11_CrashLosesAtMostOne == Load(disk) = data \/ OneMutation(Load(disk), data)

\* C12: the file an administrator's >data command writes for a guild that has
\* a config holds one row (member key, value) for each pair of the guild's
\* entries as they are when the command is handled, and no other row; that
\* file is what the reply transmits.
C12_DataRows ==
    [][ /\ (Delivers /\ Get(event').admin /\ ~Get(event').bot /\ Get(event').member
              /\ Get(event').content = Sigil \o wData
              /\ KeyOf(Get(event').guild) \in DOMAIN data)
           => LET k == KeyOf(Get(event').guild) IN
              /\ k \in DOMAIN staging'
              /\ \A a \in DOMAIN data[k].data : <<a, data[k].data[a]>> \in staging'[k]
              /\ Cardinality(staging'[k]) = Cardinality(DOMAIN data[k].data)
              /\ \E t \in Tasks : task[t].pc = "idle" /\ task'[t].pc = "L156"
        /\ \A t \in Tasks :
             (task[t].pc = "L156" /\ task'[t].pc = "done" /\ event # None)
             => /\ task'[t].sent = <<"data_file">>
                /\ task[t].guild \in DOMAIN staging
                /\ staging[task[t].guild]
                     = { <<a, data[task[t].guild].data[a]>> : a \in DOMAIN data[task[t].guild].data }
      ]_vars

\* C12's case: the guild is configured (channel, role, ledger type) and holds
\* the one accepted submission of member 100; the administrator's >data has
\* written its file, which has that one row, and awaits the reply carrying it.
C12_Witness ==
    /\ event # None
    /\ Get(event).content = Sigil \o wData
    /\ \E t \in Tasks : IsMessageTask(t) /\ task[t].pc = "L156" /\ task[t].guild = KeyOf(1)
    /\ data[KeyOf(1)].whitelist_channel # None
    /\ data[KeyOf(1)].whitelist_role # None
    /\ data[KeyOf(1)].blockchain # None
    /\ KeyOf(1) \in DOMAIN staging
    /\ staging[KeyOf(1)] = {<<KeyOf(100), AddrE1>>}

\* The replies that tell an administrator a setting was assigned.
SettingReplies == {<<"channel_set">>, <<"role_set">>, <<"blockchain_set">>}

\* C13: once a >channel, >role or >blockchain command of an administrator has
\* been handled to its end with success, handling the same command again, with
\* no other handler under way, changes neither the store nor the snapshot at
\* any step, and ends with the same reply.
C13_TwiceAsOnce ==
    [][ \A t \in Tasks :
          ( /\ task'[t] # task[t]
            /\ event # None
            /\ \A u \in Tasks \ {t} : task[u].pc \in {"idle", "done"}
            /\ \E u \in Tasks \ {t} : task[u].pc = "done" /\ task[u].sent \in SettingReplies )
          => /\ data' = data
             /\ disk' = disk
             /\ task'[t].pc = "done"
                => \E u \in Tasks \ {t} : task[u].pc = "done" /\ task'[t].sent = task[u].sent
      ]_vars

\* C13's case: the command setting the role of guild 1 to role 20 was handled
\* twice, one after the other, in a guild that had no role set before; the
\* store and the snapshot hold the role.
C13_Witness ==
    /\ event # None
    /\ Get(event).content = cSetRole
    /\ task[1].pc = "done" /\ task[1].sent = <<"role_set">>
    /\ task[2].pc = "done" /\ task[2].sent = <<"role_set">>
    /\ data = serial
    /\ disk = Some(data)
    /\ data[KeyOf(1)].whitelist_role = Some(20)
    /\ data[KeyOf(1)].whitelist_channel = None

\* C14: the step in which a handler ends in the except clause of line 251
\* leaves the store as it is, mutations of that handler included, and ends the
\* handler, which has sent at most the reply it was awaiting; a handler that
\* ended there takes no further step (no retry, no further reply); and a
\* handler that reaches its backup_data after another one ended in the except
\* clause writes the whole store, the other's mutation included, to the
\* snapshot.
C14_FaultsContained ==
    [][ \A t \in Tasks :
          /\ (task[t].ended # "fault" /\ task'[t].ended = "fault")
             => /\ data' = data
                /\ task'[t].pc = "done"
                /\ Len(task'[t].sent) <= Len(task[t].sent) + 1
          /\ task[t].ended = "fault" => task'[t] = task[t]
          /\ task[t].ended = "fault"
             => \A u \in Tasks \ {t} :
                  (task[u].pc \in AdminAwaits \cup {"L156", "L246"} /\ task'[u].ended = "returned")
                  => (data' = data /\ disk' = Some(data))
      ]_vars

\* C14's case: the reply of the command that set the channel of guild 1 failed
\* after the assignment, so that handler ended in the except clause without a
\* reply and without backup_data; a later command of the same guild set the
\* ledger type and ended, and the snapshot holds both settings.
C14_Witness ==
    /\ task[1].ended = "fault" /\ task[1].sent = << >>
    /\ task[1].wrote # None
    /\ Get(task[1].wrote).guild = KeyOf(1)
    /\ Get(task[1].wrote).field = "whitelist_channel"
    /\ task[2].ended = "returned" /\ task[2].sent = <<"blockchain_set">>
    /\ task[2].guild = KeyOf(1)
    /\ disk = Some(data)
    /\ Load(disk)[KeyOf(1)].whitelist_channel = Some(10)
    /\ Load(disk)[KeyOf(1)].blockchain = Some(wEth)

\* C15: when the confirmation of an accepted submission is sent, the snapshot
\* holds the entry already: the handler wrote it before awaiting the reply.
C15_PersistThenConfirm ==
    [][ \A t \in Tasks :
          (task[t].pc = "L246" /\ task'[t].sent = Append(task[t].sent, "recorded"))
          => (disk # None /\ Holds(Get(disk), Get(task[t].wrote)))
      ]_vars

\* A >clear command of guild key k has been handled to its end with success.
Cleared(k) ==
    \E t \in Tasks :
      task[t].pc = "done" /\ task[t].sent = <<"cleared">> /\ task[t].guild = k

\* Config c lacks one of the three settings a submission needs.
NotConfigured(c) ==
    c.whitelist_channel = None \/ c.whitelist_role = None \/ c.blockchain = None

\* C16: the step that handles >clear leaves the guild with the default config;
\* when its reply has been sent the guild has a config, the default one unless
\* another handler has written to the guild; and from then on, as long as the
\* guild lacks a setting, the guild keeps a config whose entries are empty, no
\* handler records an entry for it and >check finds no entry.
C16_ClearResets ==
    [][ /\ \A t \in Tasks :
             /\ (task[t].pc = "idle" /\ task'[t].pc = "L167")
                => /\ task'[t].guild \in DOMAIN data'
                   /\ data'[task'[t].guild] = GUILD_TEMPLATE
             /\ (task[t].pc = "L167" /\ task'[t].sent = <<"cleared">>)
                => /\ task[t].guild \in DOMAIN data'
                   /\ \/ data'[task[t].guild] = GUILD_TEMPLATE
                      \/ \E u \in Tasks \ {t} :
                           task[u].wrote # None /\ Get(task[u].wrote).guild = task[t].guild
        /\ \A g \in Guilds :
             LET k == KeyOf(g) IN
             Cleared(k)
             => /\ k \in DOMAIN data /\ k \in DOMAIN data'
                /\ NotConfigured(data[k])
                   => /\ data[k].data = EmptyDict
                      /\ data'[k].data = EmptyDict
                      /\ \A u \in Tasks :
                           (task[u].pc = "idle" /\ task'[u].guild = k)
                           => task'[u].pc \notin {"L198", "L246"}
      ]_vars

\* C16's case: >clear was handled to its end in guild 1, then a member's >check
\* in that guild was answered with "not on the whitelist"; the store and the
\* snapshot hold the default config for the guild.
C16_Witness ==
    /\ task[1].pc = "done" /\ task[1].sent = <<"cleared">> /\ task[1].guild = KeyOf(1)
    /\ task[2].pc = "done" /\ task[2].sent = <<"not_whitelisted">> /\ task[2].guild = KeyOf(1)
    /\ data[KeyOf(1)] = GUILD_TEMPLATE
    /\ disk = Some(data)

\* C17: an administrator's >blockchain command, in a guild that has a config,
\* sets the ledger type to the last whitespace-delimited token of the text when
\* that token is one of the declared ledger types; for every other text the
\* ledger type stays as it is and the invalid-argument notice is sent.
C17_TrailingToken ==
    [][ ( /\ Delivers
          /\ ~Dropped(Get(event')) /\ Get(event').admin
          /\ Get(event').content[1] = ">"
          /\ CommandOf(Get(event').content) = wBlockchain
          /\ KeyOf(Get(event').guild) \in DOMAIN data )
        => LET k == KeyOf(Get(event').guild)
               tokens == Split(Get(event').content)
               last == tokens[Len(tokens)]
           IN IF Len(tokens) >= 2 /\ last \in {wEth, wSol}
              THEN /\ data'[k].blockchain = Some(last)
                   /\ \E t \in Tasks : task[t].pc = "idle" /\ task'[t].pc = "L125"
              ELSE /\ data'[k].blockchain = data[k].blockchain
                   /\ \E t \in Tasks : task[t].pc = "idle" /\ task'[t].pc = "L224"
      ]_vars

\* C18: every >data handler whose table has been transmitted ends by
\* returning, having removed its staging file, not in the except clause,
\* whatever other >data handlers of the guild do meanwhile.
C18_ExportsSucceed ==
    \A t \in Tasks :
      (task[t].pc = "done" /\ task[t].sent = <<"data_file">>)
      => task[t].ended = "returned"

\* C19: a step of the handler of an event of one guild, whether it is
\* delivered, resumed or ends in the except clause, leaves the config of
\* every other guild as it is and adds no other guild to the store, whatever
\* handlers of other guilds are suspended meanwhile.
C19_GuildIsolation ==
    [][ \A t \in Tasks :
          task'[t] # task[t]
          => /\ DOMAIN data \subseteq DOMAIN data'
             /\ DOMAIN data' \subseteq (DOMAIN data) \cup {task'[t].guild}
             /\ \A h \in DOMAIN data : h # task'[t].guild => data'[h] = data[h]
      ]_vars

\* C19's case: >clear of guild 1 has reset that guild and awaits its reply
\* while a command of guild 2 set that guild's channel and ended; guild 2 has
\* its new channel and still has its entries.
C19_Witness ==
    /\ task[1].guild = KeyOf(1) /\ task[1].pc = "L167"
    /\ task[2].guild = KeyOf(2) /\ task[2].pc = "done" /\ task[2].sent = <<"channel_set">>
    /\ data[KeyOf(1)] = GUILD_TEMPLATE
    /\ data[KeyOf(2)].whitelist_channel = Some(10)
    /\ data[KeyOf(2)].data # EmptyDict
    /\ disk = Some(data)

\* Every guild of store d that has an entry has channel, role and ledger type
\* set.
EntriesNeedConfig(d) ==
    \A k \in DOMAIN d :
      d[k].data # EmptyDict
      => (d[k].whitelist_channel # None /\ d[k].whitelist_role # None
          /\ d[k].blockchain # None)

\* C20: from a start in which every guild has the default config, a guild
\* that has an entry has channel, role and ledger type set, before and after
\* every step; and a step after which a setting that was set is unset, or the
\* guild gone, is the step that handles >clear for that guild, which leaves the
\* guild the default config, entries empty.
C20_EntriesNeedConfig ==
    [][ /\ EntriesNeedConfig(data)
        /\ EntriesNeedConfig(data')
        /\ \A k \in DOMAIN data :
             ( \/ k \notin DOMAIN data'
               \/ data[k].whitelist_channel # None /\ data'[k].whitelist_channel = None
               \/ data[k].whitelist_role # None /\ data'[k].whitelist_role = None
               \/ data[k].blockchain # None /\ data'[k].blockchain = None )
             => /\ k \in DOMAIN data'
                /\ data'[k] = GUILD_TEMPLATE
                /\ \E t \in Tasks :
                     task[t].pc = "idle" /\ task'[t].pc = "L167" /\ task'[t].guild = k
      ]_vars

\* C20's case: the guild started with the default config, channel, role and
\* ledger type were set, the member's address was recorded, and >clear has
\* just reset the guild while the confirmation of the submission is awaited.
C20_Witness ==
    /\ \E t \in Tasks : task[t].pc = "L246" /\ task[t].guild = KeyOf(1)
    /\ \E t \in Tasks : task[t].pc = "L167" /\ task[t].guild = KeyOf(1)
    /\ data[KeyOf(1)] = GUILD_TEMPLATE
    /\ disk # None
    /\ Get(disk)[KeyOf(1)].whitelist_channel = Some(10)
    /\ Get(disk)[KeyOf(1)].whitelist_role = Some(20)
    /\ Get(disk)[KeyOf(1)].blockchain = Some(wEth)

====
